---- MODULE Spec2Model ----
(***************************************************************************)
(* A model of the question-answering pipeline of rag-saas-service.         *)
(*                                                                         *)
(*   Spec          one /chat request handled by src/chat_api.py (chat)     *)
(*   SpecPlan      _rewrite_queries of src/chat_api.py as a function       *)
(*   SpecGate      llm_filter_relevant_chunks of src/chat_api.py and of    *)
(*                 src/chat_helpers.py as functions                        *)
(*   SpecRetrieve  _retrieve_candidates of src/chat_helpers.py (RRF)       *)
(*   SpecFocus     focus_by_entity of src/chat_api.py as a function        *)
(*   SpecCoverage  _passes_coverage_gate of src/chat_helpers.py            *)
(*   SpecService   uploads (src/ingest_api.py) and two /chat requests in   *)
(*                 parallel over one database; the legacy in-memory store  *)
(*                 of src/api.py                                           *)
(*   SpecNoise     _is_noise_chunk of src/chat_api.py and of               *)
(*                 src/chat_helpers.py on raw text                         *)
(*   SpecIngest    two uploads in parallel, create_document_with_chunks of *)
(*                 src/repository.py statement by statement                *)
(*                                                                         *)
(* Text is modelled by the features the code reads from it.  A string of   *)
(* the planner is a record [w, cap, bullet]: its words w, whether it is    *)
(* written with capitals, whether it carries a list bullet.  A chunk's     *)
(* content is a record [len, header, table, phrases].                      *)
(***************************************************************************)
EXTENDS Integers, Sequences, FiniteSets, TLC

VARIABLES
    pc,                     \* position of the chat handler
    request,                \* ChatRequest
    LLM_ENABLED,            \* module flag, read from the environment at import
    QUERY_REWRITE_ENABLED,  \* module flag, read from the environment at import
    search_queries,         \* chat: search_queries
    chunk_objs,             \* chat: chunk_objs
    candidates,             \* chat: candidates
    judged,                 \* what the relevance-judgment capability did in this run
    calls,                  \* capability calls of this run, in order
    response,               \* ChatResponse, or NoResponse
    args,                   \* inputs of a function under the function specifications
    result,                 \* its result
    db,                     \* the database: workspaces, documents and chunks
    sessions,               \* the ORM sessions: objects loaded, pending changes
    runs,                   \* the chat requests in flight under SpecService
    store,                  \* memory_store.store._data of the legacy service
    ingests                 \* the uploads in flight under SpecIngest

vars == <<pc, request, LLM_ENABLED, QUERY_REWRITE_ENABLED, search_queries,
          chunk_objs, candidates, judged, calls, response, args, result,
          db, sessions, runs, store, ingests>>

svcVars == <<db, sessions, runs, store, ingests>>

chatVars == <<pc, request, search_queries, chunk_objs, candidates, judged,
              calls, response>>

(***************************************************************************)
(* Bounds of the model.                                                    *)
(***************************************************************************)
\* longest reply of the query-rewrite capability, in lines (SpecPlan)
MaxLines == 4
\* longest reply of the rewrite capability inside a chat run, in lines
MaxChatLines == 1
\* longest free-form index list of the relevance judgment
MaxRawLen == 2
\* longest index list that repeats one index
MaxRepeat == 9
\* largest distance a lookup reports (distances are 1..MaxDist)
MaxDist == 2
\* largest number of candidates handed to the gate under SpecGate
MaxCands == 3

(***************************************************************************)
(* Program constants.                                                      *)
(***************************************************************************)
QUERY_REWRITE_N == 3
CONTEXT_K == 8
MIN_KEEP == 3
NOISE_MIN_LEN == 120
HELPERS_NOISE_MIN_LEN == 160
NO_DISTANCE == 999

(***************************************************************************)
(* Sequences.                                                              *)
(***************************************************************************)
Range(s) == {s[i] : i \in 1..Len(s)}

Take(s, n) == SubSeq(s, 1, IF n < Len(s) THEN n ELSE Len(s))

SeqsUpTo(S, n) == UNION {[1..m -> S] : m \in 0..n}

\* list.sort(key=...): ascending by key, stable.  key[i] is the key of s[i].
StableSort(s, key) ==
    LET n == Len(s)
        pos(i) == 1 + Cardinality({j \in 1..n : key[j] < key[i] \/ (key[j] = key[i] /\ j < i)})
    IN  [p \in 1..n |-> s[CHOOSE i \in 1..n : pos(i) = p]]

\* s is a sub-sequence of t (order kept, nothing repeated from one place)
RECURSIVE IsSubSeq(_, _)
IsSubSeq(s, t) ==
    IF s = <<>> THEN TRUE
    ELSE IF t = <<>> THEN FALSE
    ELSE IF Head(s) = Head(t) THEN IsSubSeq(Tail(s), Tail(t))
    ELSE IsSubSeq(s, Tail(t))

\* TRUE, once the value v is worked out: a loop that is split in two halves
\* works out the state after the first half before it enters the second
Computed(v) == v = v

NoDuplicates(s) == \A i, j \in 1..Len(s) : i # j => s[i] # s[j]

\* the ids of a list of chunks
Ids(out) == [i \in 1..Len(out) |-> out[i].id]

(***************************************************************************)
(* Strings of the planner.                                                 *)
(***************************************************************************)
Str(w, cap, bullet) == [w |-> w, cap |-> cap, bullet |-> bullet]

\* str.lower()
lower(s) == [s EXCEPT !.cap = FALSE]

\* line.strip(" -\t\r\n")
strip_bullet(s) == [s EXCEPT !.bullet = FALSE]

\* bool(line.strip()): a line of white space only is dropped
not_blank(s) == s.w # <<>> \/ s.bullet

\* the questions of the model: "What is hypericum", "uses and dosage"
Q_SINGLE == Str(<<"what", "is", "hypericum">>, TRUE, FALSE)
Q_MULTI == Str(<<"uses", "and", "dosage">>, FALSE, FALSE)
Q_LIST == Str(<<"dosage", ",", "uses">>, FALSE, FALSE)
Questions == {Q_SINGLE, Q_MULTI, Q_LIST}

\* the test of chat: " and " in q or "," in q or ";" in q, on q = question.lower()
is_multi_question(q) ==
    \/ \E i \in 2..(Len(q.w) - 1) : q.w[i] = "and"
    \/ \E i \in 1..Len(q.w) : q.w[i] \in {",", ";"}

(***************************************************************************)
(* The query-rewrite capability and _rewrite_queries.                      *)
(***************************************************************************)
Raise == [kind |-> "raise"]
\* build_llm_chain raises
BuildRaise == [kind |-> "build raise"]
NotCalled == [kind |-> "not called"]
Text(lines) == [kind |-> "text", lines |-> lines]

\* the filter of the reply's lines: strip, drop empties and echoes of the question
RECURSIVE rewrite_lines(_, _)
rewrite_lines(lines, question) ==
    IF lines = <<>> THEN <<>>
    ELSE LET line == Head(lines)
             q == strip_bullet(line)
             rest == rewrite_lines(Tail(lines), question)
         IN  IF not_blank(line) /\ q.w # <<>> /\ lower(q) # lower(question)
             THEN <<q>> \o rest
             ELSE rest

\* a deduplication whose key is the string itself
RECURSIVE dedup_exact(_, _)
dedup_exact(merged, seen) ==
    IF merged = <<>> THEN <<>>
    ELSE IF Head(merged) \in seen THEN dedup_exact(Tail(merged), seen)
    ELSE <<Head(merged)>> \o dedup_exact(Tail(merged), seen \cup {Head(merged)})

\* "Deduplicate preserving order": the key is q.lower()
RECURSIVE dedup_lower(_, _)
dedup_lower(merged, seen) ==
    IF merged = <<>> THEN <<>>
    ELSE IF lower(Head(merged)) \in seen THEN dedup_lower(Tail(merged), seen)
    ELSE <<Head(merged)>> \o dedup_lower(Tail(merged), seen \cup {lower(Head(merged))})

rewrite_budget == IF QUERY_REWRITE_N + 1 > 1 THEN QUERY_REWRITE_N + 1 ELSE 1

\* a planner that returns nothing when the capability fails
rewrite_nothing_on_failure(question, llm_on, rewrite_on, reply) ==
    IF ~llm_on \/ ~rewrite_on THEN <<question>>
    ELSE IF reply.kind \in {"raise", "build raise"} THEN <<>>
    ELSE Take(dedup_lower(<<question>> \o rewrite_lines(reply.lines, question), {}),
              rewrite_budget)

\* _rewrite_queries(question), given what the capability does when it is called
_rewrite_queries(question, llm_on, rewrite_on, reply) ==
    IF ~llm_on \/ ~rewrite_on THEN <<question>>
    ELSE IF reply.kind \in {"raise", "build raise"} THEN <<question>>
    ELSE Take(dedup_lower(<<question>> \o rewrite_lines(reply.lines, question), {}),
              rewrite_budget)

\* whether _rewrite_queries calls the capability
rewrite_called(llm_on, rewrite_on) == llm_on /\ rewrite_on

(***************************************************************************)
(* The store: chunks of documents of workspaces (src/models.py).  Workspace*)
(* "w0" holds nothing, "w1" holds two passages and a table, "w2" holds one *)
(* short passage, "w3" holds only a table.  The chunks of BulkIds are the  *)
(* tables of one large catalogue; they are not in the database of the chat *)
(* runs and serve as the rows of a long lookup under SpecRetrieve.         *)
(***************************************************************************)
\* number of chunks of the catalogue
MaxBulk == 52

Prose(len, phrases) == [len |-> len, header |-> FALSE, table |-> FALSE, phrases |-> phrases]
Table(len) == [len |-> len, header |-> FALSE, table |-> TRUE, phrases |-> {}]

ChunkIds == 1..5
BulkIds == {Cardinality(ChunkIds) + i : i \in 1..MaxBulk}
Workspaces == {"w0", "w1", "w2", "w3"}

Chunks ==
    [id \in ChunkIds \cup BulkIds |->
        CASE id = 1 -> [workspace_id |-> "w1", document_id |-> 1, index |-> 0,
                        content |-> Prose(200, {<<"what", "is">>, <<"hypericum">>})]
          [] id = 2 -> [workspace_id |-> "w1", document_id |-> 1, index |-> 1,
                        content |-> Table(200)]
          [] id = 3 -> [workspace_id |-> "w1", document_id |-> 2, index |-> 0,
                        content |-> Prose(180, {<<"dosage">>, <<"hypericum">>})]
          [] id = 4 -> [workspace_id |-> "w2", document_id |-> 3, index |-> 0,
                        content |-> Prose(130, {<<"uses", "and">>})]
          [] id = 5 -> [workspace_id |-> "w3", document_id |-> 4, index |-> 0,
                        content |-> Table(300)]
          [] OTHER  -> [workspace_id |-> "w4", document_id |-> 5,
                        index |-> id - Cardinality(ChunkIds) - 1, content |-> Table(300)]]

\* where Document.workspace_id == workspace_id
WorkspaceChunks(ws) == {id \in ChunkIds : Chunks[id].workspace_id = ws}

\* The database.  documents maps the id of every stored document to the
\* workspace it is stored under, and the id of any other document to "none";
\* chunks holds the ids of the stored chunks.  A
\* chunk's document_id, index and content are those of Chunks.
DocumentIds == {Chunks[id].document_id : id \in ChunkIds}
DocumentChunks(doc) == {id \in ChunkIds : Chunks[id].document_id = doc}

EmptyDb == [workspaces |-> {}, documents |-> [doc \in DocumentIds |-> "none"], chunks |-> {}]

\* the database that holds every document of Chunks under its workspace
StoredDb ==
    [workspaces |-> {Chunks[id].workspace_id : id \in ChunkIds},
     documents |-> [doc \in DocumentIds |->
                      Chunks[CHOOSE id \in ChunkIds : Chunks[id].document_id = doc].workspace_id],
     chunks |-> ChunkIds]

\* a query that does not filter by workspace
select_all_chunks(d, ws) == d.chunks

\* select(Chunk).join(Document).where(Document.workspace_id == workspace_id)
select_workspace_chunks(d, ws) ==
    {id \in d.chunks : d.documents[Chunks[id].document_id] = ws}

Dists == 1..MaxDist

\* the distances of a workspace's chunks to one query; other chunks are not read
DistTables(ws) ==
    {[id \in ChunkIds |-> IF id \in WorkspaceChunks(ws) THEN d[id] ELSE MaxDist] :
        d \in [WorkspaceChunks(ws) -> Dists]}

\* the ids of S as a sequence, ascending by id
RECURSIVE ById(_)
ById(S) ==
    IF S = {} THEN <<>>
    ELSE LET m == CHOOSE x \in S : \A y \in S : x <= y
         IN  <<m>> \o ById(S \ {m})

TOP_K == 20
QUERY_REWRITE_TOP_K_PER_QUERY == 20
OVERFETCH == 20

\* get_top_k_chunks_for_workspace: the workspace's chunks by ascending cosine
\* distance, at most k * OVERFETCH of them, as (chunk id, distance) rows
get_top_k_chunks_for_workspace(d, ws, dist, k) ==
    LET ids == ById(select_workspace_chunks(d, ws))
        sorted == StableSort(ids, [i \in 1..Len(ids) |-> dist[ids[i]]])
    IN  Take([i \in 1..Len(sorted) |-> [id |-> sorted[i], dist |-> dist[sorted[i]]]],
             k * OVERFETCH)

\* the words of a question and of a chunk's content
QuestionWords(question) == Range(lower(question).w)
ContentWords(content) == UNION {Range(p) : p \in content.phrases}

(***************************************************************************)
(* Noise classifiers.                                                      *)
(***************************************************************************)
\* _is_noise_chunk of chat_api.py
_is_noise_chunk(content) ==
    \/ content.len = 0
    \/ content.len < NOISE_MIN_LEN
    \/ content.header
    \/ content.table

\* _is_noise_chunk of chat_helpers.py
helpers_is_noise_chunk(content) ==
    \/ content.len = 0
    \/ content.len < HELPERS_NOISE_MIN_LEN
    \/ content.table

(***************************************************************************)
(* _retrieve_candidates of chat_api.py: semantic rows only.                *)
(***************************************************************************)
\* the loop over the rows of all queries: drop noise, drop seen ids, keep
RECURSIVE api_merge(_, _)
api_merge(rows, seen_ids) ==
    IF rows = <<>> THEN <<>>
    ELSE LET row == Head(rows)
         IN  IF _is_noise_chunk(Chunks[row.id].content) THEN api_merge(Tail(rows), seen_ids)
             ELSE IF row.id \in seen_ids THEN api_merge(Tail(rows), seen_ids)
             ELSE <<[id |-> row.id, _distance |-> row.dist]>>
                  \o api_merge(Tail(rows), seen_ids \cup {row.id})

RECURSIVE all_rows(_, _, _, _)
all_rows(d, ws, dists, k) ==
    IF dists = <<>> THEN <<>>
    ELSE get_top_k_chunks_for_workspace(d, ws, Head(dists), k) \o all_rows(d, ws, Tail(dists), k)

\* dists[i] is the distance of every chunk to the i-th query
_retrieve_candidates(d, ws, dists, k_per_query) ==
    LET merged == api_merge(all_rows(d, ws, dists, k_per_query), {})
        sorted == StableSort(merged, [i \in 1..Len(merged) |-> merged[i]._distance])
    IN  Take(sorted, CONTEXT_K)

(***************************************************************************)
(* focus_by_entity.                                                        *)
(***************************************************************************)
FOCUS_STOP == {"which", "about", "include", "describe", "traditional", "documented"}
\* the words of five letters or more that the questions of the model hold
LongWords == {"hypericum", "dosage", "which"}

\* re.findall(r"\b[a-z]+ [a-z]+\b", q): the word pairs, left to right, not overlapping
RECURSIVE word_pairs(_)
word_pairs(w) ==
    IF Len(w) < 2 THEN {}
    ELSE {<<w[1], w[2]>>} \cup word_pairs(SubSeq(w, 3, Len(w)))

entity_terms(question) ==
    LET w == lower(question).w
        latin_match == word_pairs(w)
    IN  IF latin_match # {} THEN latin_match
        ELSE {<<w[i]>> : i \in {j \in 1..Len(w) : w[j] \in LongWords /\ w[j] \notin FOCUS_STOP}}

\* focus_by_entity without the "safety fallback" of lines 87-89
focus_without_floor(chunks, question, min_keep) ==
    LET terms == entity_terms(question)
    IN  IF terms = {} THEN chunks
        ELSE SelectSeq(chunks, LAMBDA ch : Chunks[ch.id].content.phrases \cap terms # {})

focus_by_entity(chunks, question, min_keep) ==
    LET terms == entity_terms(question)
        focused == SelectSeq(chunks, LAMBDA ch : Chunks[ch.id].content.phrases \cap terms # {})
    IN  IF terms = {} THEN chunks
        ELSE IF Len(focused) < min_keep THEN chunks
        ELSE focused

(***************************************************************************)
(* The relevance-judgment capability and llm_filter_relevant_chunks.       *)
(* A reply is [kind, items].  kind "csv": the comma-separated pieces of    *)
(* the text; a piece of digits is its number, a piece of other text is -1, *)
(* an empty piece is -2 (the empty line is <<-2>>, a sentence is <<-1>>).  *)
(* kind "json": the text { "relevant": items }.                            *)
(* kind "nonlist": { "relevant": "all" }.  kind "malformed": {relevant}.   *)
(***************************************************************************)
Reply(kind, items) == [kind |-> kind, items |-> items]

\* [int(x.strip()) for x in raw.split(",") if x.strip().isdigit()]
api_indices(raw) ==
    IF raw.kind = "csv" THEN SelectSeq(raw.items, LAMBDA x : x >= 0)
    ELSE IF raw.kind = "json" /\ Len(raw.items) > 2
         THEN SelectSeq(SubSeq(raw.items, 2, Len(raw.items) - 1), LAMBDA x : x >= 0)
    ELSE <<>>

\* [candidates[i] for i in indices if 0 <= i < len(candidates)]
RECURSIVE pick(_, _)
pick(cands, indices) ==
    IF indices = <<>> THEN <<>>
    ELSE IF 0 <= Head(indices) /\ Head(indices) < Len(cands)
         THEN <<cands[Head(indices) + 1]>> \o pick(cands, Tail(indices))
    ELSE pick(cands, Tail(indices))

\* llm_filter_relevant_chunks of chat_api.py; outcome is Raise or a reply
llm_filter_relevant_chunks(cands, outcome) ==
    IF cands = <<>> THEN cands
    ELSE IF outcome.kind = "raise" THEN cands
    ELSE pick(cands, api_indices(outcome))

\* a gate that calls the capability for the empty candidate list too
gate_always_calls(cands) == TRUE

\* whether the gate of chat_api.py calls the capability
api_gate_calls(cands) == cands # <<>>

Returned(out) == [status |-> "returned", out |-> out]
Raised == [status |-> "raised", out |-> <<>>]

\* for idx in ids: if isinstance(idx, int) and 1 <= idx <= len(candidates)
RECURSIVE helpers_pick(_, _)
helpers_pick(cands, ids) ==
    IF ids = <<>> THEN <<>>
    ELSE IF 1 <= Head(ids) /\ Head(ids) <= Len(cands)
         THEN <<cands[Head(ids)]>> \o helpers_pick(cands, Tail(ids))
    ELSE helpers_pick(cands, Tail(ids))

\* candidates whose text is not empty after strip() take part in the prompt
helpers_numbered(cands) == SelectSeq(cands, LAMBDA c : Chunks[c.chunk_id].content.len > 0)

\* whether the gate of chat_helpers.py calls the capability
helpers_gate_calls(cands) == cands # <<>> /\ helpers_numbered(cands) # <<>>

\* llm_filter_relevant_chunks of chat_helpers.py: the capability is called
\* outside the try block, the reply is parsed inside it
helpers_llm_filter_relevant_chunks(cands, outcome) ==
    IF cands = <<>> THEN Returned(<<>>)
    ELSE IF helpers_numbered(cands) = <<>> THEN Returned(<<>>)
    ELSE IF outcome.kind = "raise" THEN Raised
    ELSE IF outcome.kind = "json" THEN Returned(helpers_pick(cands, outcome.items))
    ELSE Returned(<<>>)

(***************************************************************************)
(* What the capabilities may answer.                                       *)
(***************************************************************************)
Tokens == -2..2

\* the index lists of the model: all short ones, and one index repeated
IndexLists ==
    SeqsUpTo(Tokens, MaxRawLen)
        \cup {[i \in 1..n |-> t] : n \in 1..MaxRepeat, t \in {0, 1}}

\* "".split(",") is [""]: a comma-separated reply has at least one piece
CsvReplies == {Reply("csv", l) : l \in IndexLists \ {<<>>}}

JudgeOutcomes == {Raise} \cup CsvReplies

\* the lines the rewrite capability answers with inside a chat run
ChatLines == {Str(<<"hypericum", "uses">>, FALSE, TRUE), Str(<<>>, FALSE, FALSE),
              Str(<<"what", "is", "hypericum">>, FALSE, FALSE)}

ChatRewriteOutcomes == {Raise} \cup {Text(l) : l \in SeqsUpTo(ChatLines, MaxChatLines)}

(***************************************************************************)
(* chat of chat_api.py, one request.                                       *)
(***************************************************************************)
Modes == {"reference", "synthesis", "custom"}

NoResponse == [kind |-> "none", sources |-> <<>>, candidates |-> <<>>, stored_records |-> 0]
NoJudgment == [status |-> "none", outcome |-> NotCalled]
NoArgs == [fn |-> "none"]
NoResult == [fn |-> "none"]

\* The state of the service outside one chat request: the chat requests in
\* flight, each with the ORM session it opened, and the in-memory store of the
\* legacy service.
RunIds == {1, 2}

IngestIds == {1, 2}
NoTx == [document |-> FALSE, chunks |-> {}]
IdleIngest == [pc |-> "idle", workspace_id |-> "w0", doc |-> 0, embeddings |-> 0,
               tx |-> NoTx, error |-> "none", failed_at |-> "none"]
NoIngests == [i \in IngestIds |-> IdleIngest]

IdleRun ==
    [pc |-> "idle", request |-> [workspace_id |-> "w0", question |-> Q_SINGLE, mode |-> "custom"],
     search_queries |-> <<>>, chunk_objs |-> <<>>, candidates |-> <<>>, judged |-> NoJudgment,
     response |-> NoResponse, seen |-> EmptyDb]
NoRuns == [r \in RunIds |-> IdleRun]

\* a session: the _distance attribute of the objects it loaded, and the
\* objects whose mapped columns it holds a change of
NoSession == [_distance |-> [id \in ChunkIds |-> NO_DISTANCE], dirty |-> {}]
NoSessions == [r \in RunIds |-> NoSession]

LegacyWorkspaces == {"w1", "w2"}
EmptyStore == [ws \in LegacyWorkspaces |-> <<>>]

IdleService ==
    /\ db = StoredDb
    /\ sessions = NoSessions
    /\ runs = NoRuns
    /\ store = EmptyStore
    /\ ingests = NoIngests

\* the dict chat builds for a chunk
candidate_of(chunk) == [chunk_id |-> chunk.id, score |-> chunk._distance]

Init ==
    /\ pc = "start"
    /\ request \in [workspace_id : Workspaces, question : Questions, mode : Modes]
    /\ LLM_ENABLED \in BOOLEAN
    /\ QUERY_REWRITE_ENABLED \in BOOLEAN
    /\ search_queries = <<>>
    /\ chunk_objs = <<>>
    /\ candidates = <<>>
    /\ judged = NoJudgment
    /\ calls = <<>>
    /\ response = NoResponse
    /\ args = NoArgs
    /\ result = NoResult
    /\ IdleService

\* a planner that sends every mode through _rewrite_queries
plan_rewrites_every_mode(mode) == TRUE

\* lines 770-775: which modes go through _rewrite_queries
plan_rewrites(mode) == mode # "synthesis"

\* lines 767-777: the retrieval queries
Plan ==
    /\ pc = "start"
    /\ \/ /\ ~plan_rewrites(request.mode)
          /\ search_queries' = <<request.question>>
          /\ calls' = calls
       \/ /\ plan_rewrites(request.mode)
          /\ \E reply \in IF rewrite_called(LLM_ENABLED, QUERY_REWRITE_ENABLED)
                          THEN ChatRewriteOutcomes ELSE {NotCalled} :
                LET qs == _rewrite_queries(request.question, LLM_ENABLED,
                                           QUERY_REWRITE_ENABLED, reply)
                IN  search_queries' = IF qs = <<>> THEN <<request.question>> ELSE qs
          /\ calls' = IF rewrite_called(LLM_ENABLED, QUERY_REWRITE_ENABLED)
                      THEN Append(calls, "rewrite") ELSE calls
    /\ pc' = "planned"
    /\ UNCHANGED <<request, LLM_ENABLED, QUERY_REWRITE_ENABLED, chunk_objs, candidates,
                   judged, response, args, result, svcVars>>

k_per_query == IF QUERY_REWRITE_ENABLED /\ LLM_ENABLED THEN QUERY_REWRITE_TOP_K_PER_QUERY ELSE TOP_K

\* lines 787-793: _retrieve_candidates; an embedding that raises ends the request
Retrieve ==
    /\ pc = "planned"
    /\ \/ /\ \E dists \in [1..Len(search_queries) -> DistTables(request.workspace_id)] :
                chunk_objs' = _retrieve_candidates(db, request.workspace_id, dists, k_per_query)
          /\ calls' = calls \o [i \in 1..Len(search_queries) |-> "embed"]
          /\ pc' = "retrieved"
       \/ /\ \E n \in 1..Len(search_queries) :
                calls' = calls \o [i \in 1..n |-> "embed"]
          /\ chunk_objs' = chunk_objs
          /\ pc' = "fault"
    /\ UNCHANGED <<request, LLM_ENABLED, QUERY_REWRITE_ENABLED, search_queries, candidates,
                   judged, response, args, result, svcVars>>

\* line 795
Focus ==
    /\ pc = "retrieved"
    /\ chunk_objs' = focus_by_entity(chunk_objs, request.question, MIN_KEEP)
    /\ pc' = "focused"
    /\ UNCHANGED <<request, LLM_ENABLED, QUERY_REWRITE_ENABLED, search_queries, candidates,
                   judged, calls, response, args, result, svcVars>>

\* lines 800-814: the cut to CONTEXT_K and the candidate dicts
Truncate ==
    /\ pc = "focused"
    /\ chunk_objs' = Take(chunk_objs, CONTEXT_K)
    /\ candidates' = [i \in 1..Len(chunk_objs') |-> candidate_of(chunk_objs'[i])]
    /\ pc' = "truncated"
    /\ UNCHANGED <<request, LLM_ENABLED, QUERY_REWRITE_ENABLED, search_queries,
                   judged, calls, response, args, result, svcVars>>

\* lines 816-822: the relevance gate
Gate ==
    /\ pc = "truncated"
    /\ \E outcome \in IF api_gate_calls(candidates) THEN JudgeOutcomes ELSE {NotCalled} :
          /\ candidates' = llm_filter_relevant_chunks(candidates, outcome)
          /\ judged' = [status |-> IF outcome.kind = "raise" THEN "raised"
                                   ELSE IF outcome.kind = "not called" THEN "skipped"
                                   ELSE "returned",
                        outcome |-> outcome]
    /\ calls' = IF api_gate_calls(candidates) THEN Append(calls, "judge") ELSE calls
    /\ pc' = "gated"
    /\ UNCHANGED <<request, LLM_ENABLED, QUERY_REWRITE_ENABLED, search_queries, chunk_objs,
                   response, args, result, svcVars>>

stored_records == Len(candidates)

Respond(kind, srcs, n) ==
    /\ response' = [kind |-> kind, sources |-> srcs, candidates |-> srcs, stored_records |-> n]
    /\ pc' = "done"

\* chat without the stored_records == 0 test
answer_path_no_stub(n, llm_on, mode, question) ==
    IF ~llm_on THEN "disabled"
    ELSE IF mode = "reference" /\ is_multi_question(lower(question)) THEN "refusal"
    ELSE "answer"

\* chat without the one-atomic-question test of reference mode
answer_path_no_refusal(n, llm_on, mode, question) ==
    IF n = 0 THEN "stub"
    ELSE IF ~llm_on THEN "disabled"
    ELSE "answer"

\* lines 828-878: which answer chat gives
answer_path(n, llm_on, mode, question) ==
    IF n = 0 THEN "stub"
    ELSE IF ~llm_on THEN "disabled"
    ELSE IF mode = "reference" /\ is_multi_question(lower(question)) THEN "refusal"
    ELSE "answer"

\* lines 828-903: the answer
Answer ==
    /\ pc = "gated"
    /\ LET path == answer_path(stored_records, LLM_ENABLED, request.mode, request.question)
       IN
       \/ /\ path = "stub"
          /\ Respond("stub", candidates, stored_records)
          /\ calls' = calls
       \/ /\ path = "disabled"
          /\ Respond("disabled", candidates, stored_records)
          /\ calls' = calls
       \/ /\ path = "refusal"
          /\ Respond("refusal", <<>>, 0)
          /\ calls' = calls
       \/ /\ path = "answer"
          /\ calls' = Append(calls, "answer")
          /\ \/ Respond("answer", candidates, stored_records)
             \/ /\ pc' = "fault"
                /\ response' = response
    /\ UNCHANGED <<request, LLM_ENABLED, QUERY_REWRITE_ENABLED, search_queries, chunk_objs,
                   candidates, judged, args, result, svcVars>>

Next == Plan \/ Retrieve \/ Focus \/ Truncate \/ Gate \/ Answer

Spec == Init /\ [][Next]_vars

(***************************************************************************)
(* _rewrite_queries as a function (SpecPlan).                              *)
(***************************************************************************)
PlanLines == {Str(<<"a">>, FALSE, FALSE), Str(<<"a">>, TRUE, FALSE), Str(<<"b">>, FALSE, TRUE),
              Str(<<"c">>, FALSE, FALSE), Str(<<"d">>, FALSE, FALSE),
              Str(<<"what", "is", "hypericum">>, FALSE, FALSE), Str(<<>>, FALSE, FALSE)}

PlanOutcomes == {Raise, BuildRaise} \cup {Text(l) : l \in SeqsUpTo(PlanLines, MaxLines)}

IdleRequest ==
    /\ pc = "idle"
    /\ request = [workspace_id |-> "w0", question |-> Q_SINGLE, mode |-> "custom"]
    /\ search_queries = <<>>
    /\ chunk_objs = <<>>
    /\ candidates = <<>>
    /\ judged = NoJudgment
    /\ calls = <<>>
    /\ response = NoResponse

IdleChat == IdleRequest /\ IdleService

InitPlan ==
    /\ IdleChat
    /\ LLM_ENABLED \in BOOLEAN
    /\ QUERY_REWRITE_ENABLED \in BOOLEAN
    /\ args \in {[fn |-> "_rewrite_queries", question |-> Q_SINGLE, reply |-> r] :
                    r \in IF rewrite_called(LLM_ENABLED, QUERY_REWRITE_ENABLED)
                          THEN PlanOutcomes ELSE {NotCalled}}
    /\ result = NoResult

ApplyPlan ==
    /\ args.fn = "_rewrite_queries"
    /\ result = NoResult
    /\ result' = [fn |-> "_rewrite_queries",
                  out |-> _rewrite_queries(args.question, LLM_ENABLED,
                                           QUERY_REWRITE_ENABLED, args.reply)]
    /\ UNCHANGED <<chatVars, LLM_ENABLED, QUERY_REWRITE_ENABLED, args, svcVars>>

NextPlan == ApplyPlan

SpecPlan == InitPlan /\ [][NextPlan]_vars

(***************************************************************************)
(* The two relevance gates as functions (SpecGate).                        *)
(***************************************************************************)
\* the first n chunks of the store as gate candidates, in fusion order
GateCands(n) == [i \in 1..n |-> [chunk_id |-> i, score |-> i]]

GateReplies ==
    CsvReplies
        \cup {Reply("json", l) : l \in SeqsUpTo(Tokens \cup {3}, MaxRawLen)}
        \cup {Reply("json", <<3, 2, 1>>), Reply("nonlist", <<>>), Reply("malformed", <<>>)}

GateOutcomes == {Raise} \cup GateReplies

InitGate ==
    /\ IdleChat
    /\ LLM_ENABLED = TRUE
    /\ QUERY_REWRITE_ENABLED = TRUE
    /\ \E n \in 0..MaxCands :
          args \in {[fn |-> "llm_filter_relevant_chunks", cands |-> GateCands(n), outcome |-> o] :
                       o \in IF n = 0 THEN {NotCalled} ELSE GateOutcomes}
    /\ result = NoResult

ApplyApiGate ==
    /\ args.fn = "llm_filter_relevant_chunks"
    /\ result = NoResult
    /\ result' = [fn |-> "chat_api", status |-> "returned",
                  out |-> llm_filter_relevant_chunks(args.cands, args.outcome)]
    /\ UNCHANGED <<chatVars, LLM_ENABLED, QUERY_REWRITE_ENABLED, args, svcVars>>

ApplyHelpersGate ==
    /\ args.fn = "llm_filter_relevant_chunks"
    /\ result = NoResult
    /\ LET r == helpers_llm_filter_relevant_chunks(args.cands, args.outcome)
       IN  result' = [fn |-> "chat_helpers", status |-> r.status, out |-> r.out]
    /\ UNCHANGED <<chatVars, LLM_ENABLED, QUERY_REWRITE_ENABLED, args, svcVars>>

NextGate == ApplyApiGate \/ ApplyHelpersGate

SpecGate == InitGate /\ [][NextGate]_vars

(***************************************************************************)
(* _retrieve_candidates of chat_helpers.py: reciprocal rank fusion of the  *)
(* semantic and the lexical rows of every query (SpecRetrieve).            *)
(***************************************************************************)
\* longest row list a lookup returns under SpecRetrieve
MaxRows == 3

RRF_K == 60
FALLBACK_MAX == 50

RECURSIVE RrfScale(_)
RrfScale(r) == IF r = 0 THEN 1 ELSE (RRF_K + r) * RrfScale(r - 1)

\* 1.0 / (RRF_K + rank), in units of 1 / RrfScale(MaxRows)
rrf(rank) == RrfScale(MaxRows) \div (RRF_K + rank)

\* the rank of a chunk in a row list, 0 when it is not there
rank_in(rows, cid) ==
    IF \E i \in 1..Len(rows) : rows[i].id = cid
    THEN CHOOSE i \in 1..Len(rows) : rows[i].id = cid
    ELSE 0

Min(a, b) == IF a < b THEN a ELSE b

\* sort by (k1, k2) ascending, stable
StableSort2(s, k1, k2) ==
    LET n == Len(s)
        before(j, i) == \/ k1[j] < k1[i]
                        \/ k1[j] = k1[i] /\ k2[j] < k2[i]
                        \/ k1[j] = k1[i] /\ k2[j] = k2[i] /\ j < i
        pos(i) == 1 + Cardinality({j \in 1..n : before(j, i)})
    IN  [p \in 1..n |-> s[CHOOSE i \in 1..n : pos(i) = p]]

NoScores == [id \in ChunkIds \cup BulkIds |-> 0]

\* scores[cid] = 1.0 / (RRF_K + rank), for the rows from rank on
RECURSIVE put_scores(_, _, _)
put_scores(scores, rows, rank) ==
    IF rank > Len(rows) THEN scores
    ELSE IF rank = Len(rows) THEN [scores EXCEPT ![rows[rank].id] = rrf(rank)]
    ELSE LET mid == (rank + Len(rows)) \div 2
             first == put_scores(scores, SubSeq(rows, 1, mid), rank)
         IN  IF Computed(first) THEN put_scores(first, rows, mid + 1) ELSE scores

\* lines 338-341, 344-346: scores[cid] = scores.get(cid, 0.0) + 1.0 / (RRF_K + rank),
\* for the rows from rank on: first those up to the middle, then the others
RECURSIVE add_scores(_, _, _)
add_scores(scores, rows, rank) ==
    IF rank > Len(rows) THEN scores
    ELSE IF rank = Len(rows) THEN [scores EXCEPT ![rows[rank].id] = @ + rrf(rank)]
    ELSE LET mid == (rank + Len(rows)) \div 2
             first == add_scores(scores, SubSeq(rows, 1, mid), rank)
         IN  IF Computed(first) THEN add_scores(first, rows, mid + 1) ELSE scores

\* lines 333-354: the fused rows of one query, best score first
fuse_query(vector_rows, fts_rows) ==
    LET vec_ids == [i \in 1..Len(vector_rows) |-> vector_rows[i].id]
        fts_new == SelectSeq([i \in 1..Len(fts_rows) |-> fts_rows[i].id],
                             LAMBDA c : rank_in(vector_rows, c) = 0)
        keys == vec_ids \o fts_new
        scores == add_scores(add_scores(NoScores, vector_rows, 1), fts_rows, 1)
        score(c) == scores[c]
        vdist(c) == IF rank_in(vector_rows, c) > 0
                    THEN vector_rows[rank_in(vector_rows, c)].dist ELSE NO_DISTANCE
        dist(c) == IF rank_in(fts_rows, c) > 0
                   THEN Min(vdist(c), fts_rows[rank_in(fts_rows, c)].dist) ELSE vdist(c)
        rows == [i \in 1..Len(keys) |-> [id |-> keys[i], dist |-> dist(keys[i]),
                                         rrf |-> score(keys[i])]]
    IN  StableSort(rows, [i \in 1..Len(rows) |-> 0 - rows[i].rrf])

NoAttrs == [id \in ChunkIds \cup BulkIds |-> [_rrf |-> 0, _distance |-> NO_DISTANCE]]

\* setattr(ch, "_distance", dist); setattr(ch, "_rrf", rrf_score)
set_attrs(attrs, row) == [attrs EXCEPT ![row.id] = [_rrf |-> row.rrf, _distance |-> row.dist]]

\* the loop without the fallback pool
keep_row_no_fallback(st, row) ==
    IF helpers_is_noise_chunk(Chunks[row.id].content) THEN st
    ELSE IF row.id \in st.seen_ids THEN st
    ELSE [st EXCEPT !.seen_ids = @ \cup {row.id},
                    !.attrs = set_attrs(@, row),
                    !.merged = Append(@, row.id)]

\* the loop without the noise test
keep_row_any_content(st, row) ==
    LET to_fallback == Len(st.fallback_rows) < FALLBACK_MAX /\ row.id \notin st.seen_ids
        st1 == IF to_fallback
               THEN [st EXCEPT !.fallback_rows = Append(@, row.id),
                               !.attrs = set_attrs(@, row)]
               ELSE st
    IN  IF row.id \in st.seen_ids THEN st1
        ELSE [st1 EXCEPT !.seen_ids = @ \cup {row.id},
                         !.attrs = set_attrs(@, row),
                         !.merged = Append(@, row.id)]

\* lines 358-393: one row of the loop; st is [merged, fallback_rows, seen_ids, attrs]
keep_row(st, row) ==
    LET to_fallback == Len(st.fallback_rows) < FALLBACK_MAX /\ row.id \notin st.seen_ids
        st1 == IF to_fallback
               THEN [st EXCEPT !.fallback_rows = Append(@, row.id),
                               !.attrs = set_attrs(@, row)]
               ELSE st
    IN  IF helpers_is_noise_chunk(Chunks[row.id].content) THEN st1
        ELSE IF row.id \in st.seen_ids THEN st1
        ELSE [st1 EXCEPT !.seen_ids = @ \cup {row.id},
                         !.attrs = set_attrs(@, row),
                         !.merged = Append(@, row.id)]

\* the loop over the rows, in order: the first half, then the second half
RECURSIVE keep_rows(_, _)
keep_rows(st, rows) ==
    IF rows = <<>> THEN st
    ELSE IF Len(rows) = 1 THEN keep_row(st, rows[1])
    ELSE LET mid == Len(rows) \div 2
             first == keep_rows(st, SubSeq(rows, 1, mid))
         IN  IF Computed(first) THEN keep_rows(first, SubSeq(rows, mid + 1, Len(rows)))
             ELSE st

RECURSIVE fuse_all(_)
fuse_all(lookups) ==
    IF lookups = <<>> THEN <<>>
    ELSE fuse_query(Head(lookups).vec, Head(lookups).fts) \o fuse_all(Tail(lookups))

\* the chunks of a list with the attributes they carry when the function returns
with_attrs(ids, attrs) ==
    [i \in 1..Len(ids) |-> [id |-> ids[i], _rrf |-> attrs[ids[i]]._rrf,
                            _distance |-> attrs[ids[i]]._distance]]

\* lines 395-397, 400-402: sort(key=(-_rrf, _distance))
sort_by_rrf(ids, attrs) ==
    StableSort2(ids, [i \in 1..Len(ids) |-> 0 - attrs[ids[i]]._rrf],
                     [i \in 1..Len(ids) |-> attrs[ids[i]]._distance])

\* lookups[i] is [vec, fts], the rows the two lookups return for the i-th query
helpers_retrieve_candidates(lookups) ==
    LET st == keep_rows([merged |-> <<>>, fallback_rows |-> <<>>, seen_ids |-> {},
                         attrs |-> NoAttrs], fuse_all(lookups))
        merged == sort_by_rrf(st.merged, st.attrs)
    IN  IF merged = <<>> /\ st.fallback_rows # <<>>
        THEN with_attrs(sort_by_rrf(st.fallback_rows, st.attrs), st.attrs)
        ELSE with_attrs(merged, st.attrs)

\* the row lists a lookup may return: distinct chunks of the workspace, the
\* row at rank r at distance r
RowLists(ws) ==
    {[i \in 1..Len(l) |-> [id |-> l[i], dist |-> i]] :
        l \in {x \in SeqsUpTo(WorkspaceChunks(ws), MaxRows) : NoDuplicates(x)}}

Lookups(ws) == [vec : RowLists(ws), fts : RowLists(ws)]

\* the first m chunks of the catalogue, in rank order
BulkRows(m) == [i \in 1..m |-> [id |-> Cardinality(ChunkIds) + i, dist |-> i]]

\* getattr(ch, "id", None) is None
NoId == 0

\* row lists in which at least one chunk carries no id
NoIdRowLists(ws) ==
    {[i \in 1..Len(l) |-> [id |-> l[i], dist |-> i]] :
        l \in {x \in SeqsUpTo(WorkspaceChunks(ws) \cup {NoId}, MaxRows) :
                  /\ NoId \in Range(x)
                  /\ NoDuplicates(SelectSeq(x, LAMBDA c : c # NoId))}}

\* line 339, line 345: int(getattr(ch, "id")) raises on a chunk without an id
int_id_raises(rows) == \E i \in 1..Len(rows) : rows[i].id = NoId

\* the first query whose embedding raises, 0 when none does
first_raise(embeddings) ==
    IF \E i \in 1..Len(embeddings) : embeddings[i] = "raise"
    THEN CHOOSE i \in 1..Len(embeddings) :
            /\ embeddings[i] = "raise"
            /\ \A j \in 1..(i - 1) : embeddings[j] # "raise"
    ELSE 0

\* _retrieve_candidates as a call: lines 313-317 call create_embeddings and
\* lines 338-346 convert the ids outside any try, so what they raise leaves the
\* function.  embeddings[i] is what create_embeddings does for the i-th query,
\* lookups[i] the rows of the i-th query when its lookups are reached.
helpers_retrieve_outcome(lookups, embeddings) ==
    IF first_raise(embeddings) > 0 THEN Raised
    ELSE IF \E i \in 1..Len(lookups) : int_id_raises(lookups[i].vec) \/ int_id_raises(lookups[i].fts)
    THEN Raised
    ELSE [status |-> "returned", out |-> helpers_retrieve_candidates(lookups)]

RetrieveWorkspaces == {"w1", "w3"}

InitRetrieve ==
    /\ IdleChat
    /\ LLM_ENABLED = TRUE
    /\ QUERY_REWRITE_ENABLED = TRUE
    /\ \E ws \in RetrieveWorkspaces, n \in 1..2 :
          \/ args \in {[fn |-> "_retrieve_candidates", workspace_id |-> ws, lookups |-> l,
                        embeddings |-> [i \in 1..n |-> "ok"]] :
                          l \in [1..n -> Lookups(ws)]}
          \/ \E f \in 1..n :
                args \in {[fn |-> "_retrieve_candidates", workspace_id |-> ws, lookups |-> l,
                           embeddings |-> [i \in 1..n |-> IF i = f THEN "raise" ELSE "ok"]] :
                             l \in [1..(f - 1) -> Lookups(ws)]}
          \/ /\ n = 1
             /\ args \in {[fn |-> "_retrieve_candidates", workspace_id |-> ws,
                           lookups |-> <<[vec |-> v, fts |-> l]>>, embeddings |-> <<"ok">>] :
                             v \in NoIdRowLists(ws), l \in RowLists(ws)}
          \/ /\ n = 1
             /\ args \in {[fn |-> "_retrieve_candidates", workspace_id |-> "w4",
                           lookups |-> <<[vec |-> BulkRows(m), fts |-> <<>>]>>,
                           embeddings |-> <<"ok">>] :
                             m \in (FALLBACK_MAX - 1)..MaxBulk}
    /\ result = NoResult

ApplyRetrieve ==
    /\ args.fn = "_retrieve_candidates"
    /\ result = NoResult
    /\ LET r == helpers_retrieve_outcome(args.lookups, args.embeddings)
       IN  result' = [fn |-> "_retrieve_candidates", status |-> r.status, out |-> r.out]
    /\ UNCHANGED <<chatVars, LLM_ENABLED, QUERY_REWRITE_ENABLED, args, svcVars>>

NextRetrieve == ApplyRetrieve

SpecRetrieve == InitRetrieve /\ [][NextRetrieve]_vars

(***************************************************************************)
(* focus_by_entity as a function (SpecFocus).                              *)
(***************************************************************************)
\* longest chunk list handed to the focus filter under SpecFocus
MaxFocusLen == 3
\* largest min_keep under SpecFocus
MaxKeep == 3

\* "hypericum", "why", "which": one long word, one short word, one word of
\* the stop list of line 76
Q_WORD == Str(<<"hypericum">>, FALSE, FALSE)
Q_SHORT == Str(<<"why">>, TRUE, FALSE)
Q_STOP == Str(<<"which">>, TRUE, FALSE)
FocusQuestions == Questions \cup {Q_WORD, Q_SHORT, Q_STOP}

\* chunk lists as retrieval hands them over: distinct chunks, in any order
FocusChunks ==
    {[i \in 1..Len(l) |-> [id |-> l[i], _distance |-> 1]] :
        l \in {x \in SeqsUpTo(ChunkIds, MaxFocusLen) : NoDuplicates(x)}}

InitFocus ==
    /\ IdleChat
    /\ LLM_ENABLED = TRUE
    /\ QUERY_REWRITE_ENABLED = TRUE
    /\ args \in [fn : {"focus_by_entity"}, chunks : FocusChunks, question : FocusQuestions,
                 min_keep : 0..MaxKeep]
    /\ result = NoResult

ApplyFocus ==
    /\ args.fn = "focus_by_entity"
    /\ result = NoResult
    /\ result' = [fn |-> "focus_by_entity",
                  out |-> focus_by_entity(args.chunks, args.question, args.min_keep)]
    /\ UNCHANGED <<chatVars, LLM_ENABLED, QUERY_REWRITE_ENABLED, args, svcVars>>

NextFocus == ApplyFocus

SpecFocus == InitFocus /\ [][NextFocus]_vars

(***************************************************************************)
(* The coverage gate of chat_helpers.py (SpecCoverage).  A text is the set *)
(* of the words re.findall(r"[a-z]+", text.lower()) finds in it.           *)
(***************************************************************************)
\* longest free-form candidate list under SpecCoverage
MaxCovCands == 2
\* longest candidate list whose last candidate alone shares a term with the question
MaxCovList == 11

COVERAGE_TOP == 10
COVERAGE_MIN_PERCENT == 20
TOKEN_MIN_LEN == 3

\* the words of the model's texts and their lengths
WordLen ==
    [w \in {"what", "is", "and", "which", "why", "ph", "uses", "root", "leaf", "plant",
            "dosage", "hypericum"} |->
        CASE w \in {"is", "ph"} -> 2
          [] w \in {"and", "why"} -> 3
          [] w \in {"what", "uses", "root", "leaf"} -> 4
          [] w \in {"which", "plant"} -> 5
          [] w = "dosage" -> 6
          [] OTHER -> 9]

\* the words of the model that are in _STOPWORDS
_STOPWORDS == {"what", "is", "and", "which", "why"}

_tokenize_for_coverage(text) ==
    {t \in text : WordLen[t] >= TOKEN_MIN_LEN /\ t \notin _STOPWORDS}

\* the loop of lines 435-443: the largest intersection found so far; every
\* overlap is a fraction of len(q_terms), so the largest fraction is the
\* largest intersection
RECURSIVE best_overlap(_, _, _)
best_overlap(q_terms, cands, best) ==
    IF cands = <<>> THEN best
    ELSE LET ch_terms == _tokenize_for_coverage(Head(cands))
             overlap == Cardinality(q_terms \cap ch_terms)
         IN  IF ch_terms = {} THEN best_overlap(q_terms, Tail(cands), best)
             ELSE IF overlap > best THEN best_overlap(q_terms, Tail(cands), overlap)
             ELSE best_overlap(q_terms, Tail(cands), best)

\* a coverage gate that inspects every candidate
coverage_gate_all_candidates(question, cands) ==
    LET q_terms == _tokenize_for_coverage(question)
    IN  IF q_terms = {} THEN TRUE
        ELSE 100 * best_overlap(q_terms, cands, 0) >= COVERAGE_MIN_PERCENT * Cardinality(q_terms)

\* _passes_coverage_gate(question, candidates); cands[i] is the content of the
\* i-th candidate.  best_overlap >= 0.20, with best_overlap = k / len(q_terms),
\* is 100 * k >= 20 * len(q_terms): k / n is the double 0.2 exactly when 5k = n.
_passes_coverage_gate(question, cands) ==
    LET q_terms == _tokenize_for_coverage(question)
    IN  IF q_terms = {} THEN TRUE
        ELSE 100 * best_overlap(q_terms, Take(cands, COVERAGE_TOP), 0)
                >= COVERAGE_MIN_PERCENT * Cardinality(q_terms)

CovWords == {"what", "is", "ph", "hypericum", "dosage", "uses", "plant", "root", "leaf"}

CovContents == {{}, {"what", "is"}, {"hypericum"}, {"hypericum", "dosage"}, {"ph"}}

CovCands ==
    SeqsUpTo(CovContents, MaxCovCands)
        \cup {[i \in 1..n |-> IF i = n THEN {"hypericum"} ELSE {"leaf"}] : n \in 1..MaxCovList}

InitCoverage ==
    /\ IdleChat
    /\ LLM_ENABLED = TRUE
    /\ QUERY_REWRITE_ENABLED = TRUE
    /\ args \in [fn : {"_passes_coverage_gate"}, question : SUBSET CovWords, cands : CovCands]
    /\ result = NoResult

ApplyCoverage ==
    /\ args.fn = "_passes_coverage_gate"
    /\ result = NoResult
    /\ result' = [fn |-> "_passes_coverage_gate",
                  out |-> _passes_coverage_gate(args.question, args.cands)]
    /\ UNCHANGED <<chatVars, LLM_ENABLED, QUERY_REWRITE_ENABLED, args, svcVars>>

NextCoverage == ApplyCoverage

SpecCoverage == InitCoverage /\ [][NextCoverage]_vars

(***************************************************************************)
(* The service (SpecService): uploads through ingest_api.py and chat       *)
(* requests through chat_api.py over one database, requests in parallel;   *)
(* or the legacy service of api.py over its in-memory store.               *)
(***************************************************************************)
\* the documents that are uploaded, and the workspaces they are uploaded to
Uploads == {1, 2}
IngestWorkspaces == {"w1", "w2"}

\* get_or_create_workspace
get_or_create_workspace(d, ws) == [d EXCEPT !.workspaces = @ \cup {ws}]

\* create_document_with_chunks run to its end with no other upload in between:
\* the document and its chunks, committed (SpecIngest runs it by statements)
create_document_with_chunks(d, ws, doc) ==
    [get_or_create_workspace(d, ws) EXCEPT !.documents[doc] = ws,
                                           !.chunks = @ \cup DocumentChunks(doc)]

\* ingest_file of ingest_api.py
IngestFile ==
    /\ \A r \in RunIds : runs[r].pc # "idle"
    /\ \E ws \in IngestWorkspaces, doc \in Uploads :
          /\ db.documents[doc] = "none"
          /\ db' = create_document_with_chunks(db, ws, doc)
    /\ UNCHANGED <<chatVars, LLM_ENABLED, QUERY_REWRITE_ENABLED, args, result,
                   sessions, runs, store, ingests>>

\* the mapped columns of Chunk
ChunkColumns == {"id", "document_id", "index", "content", "embedding", "created_at"}

\* an ORM that tracks every attribute of an object as a column
every_attribute_is_column(name) == TRUE

is_column(name) == name \in ChunkColumns

\* setattr(ch, "_distance", float(dist)) on an object of the session
set_distance(sess, id, dist) ==
    [sess EXCEPT !._distance[id] = dist,
                 !.dirty = IF is_column("_distance") THEN @ \cup {id} ELSE @]

RECURSIVE set_distances(_, _)
set_distances(sess, kept) ==
    IF kept = <<>> THEN sess
    ELSE set_distances(set_distance(sess, Head(kept).id, Head(kept)._distance), Tail(kept))

\* db.close(): the session is released, nothing was committed
session_close(d, sess) == d

\* one session for every request
one_session(r) == 1

\* db = SessionLocal(): every request opens its own session
session_of(r) == r

\* the distance of a chunk to a query, as the embedding capability fixes it
cosine_distance(query, id) ==
    IF QuestionWords(query) \cap ContentWords(Chunks[id].content) # {} THEN 1 ELSE 2

ServiceDists(queries) ==
    [i \in 1..Len(queries) |-> [id \in ChunkIds |-> cosine_distance(queries[i], id)]]

\* the replies of the relevance judgment under SpecService
ServiceJudgeOutcomes == {Raise, Reply("csv", <<0>>)}

ServiceQuestions == {Q_SINGLE, Q_MULTI}
ServiceRequests == [workspace_id : IngestWorkspaces, question : ServiceQuestions, mode : {"custom"}]

StartRun(req) == [IdleRun EXCEPT !.pc = "start", !.request = req]

\* the chunk objects of a request, with the attributes its session holds
objs(r) ==
    [i \in 1..Len(runs[r].chunk_objs) |->
        [id |-> runs[r].chunk_objs[i],
         _distance |-> sessions[session_of(r)]._distance[runs[r].chunk_objs[i]]]]

ServiceFrame ==
    UNCHANGED <<chatVars, LLM_ENABLED, QUERY_REWRITE_ENABLED, args, result, store, ingests>>

\* lines 767-777
RunPlan(r) ==
    /\ runs[r].pc = "start"
    /\ \E reply \in IF plan_rewrites(runs[r].request.mode)
                       /\ rewrite_called(LLM_ENABLED, QUERY_REWRITE_ENABLED)
                    THEN ChatRewriteOutcomes ELSE {NotCalled} :
          LET qs == IF plan_rewrites(runs[r].request.mode)
                    THEN _rewrite_queries(runs[r].request.question, LLM_ENABLED,
                                          QUERY_REWRITE_ENABLED, reply)
                    ELSE <<runs[r].request.question>>
          IN  runs' = [runs EXCEPT ![r].search_queries = qs, ![r].pc = "planned"]
    /\ UNCHANGED <<db, sessions>>
    /\ ServiceFrame

\* lines 785-793: the session is opened and _retrieve_candidates runs in it
RunRetrieve(r) ==
    /\ runs[r].pc = "planned"
    /\ \/ LET kept == _retrieve_candidates(db, runs[r].request.workspace_id,
                                           ServiceDists(runs[r].search_queries), k_per_query)
          IN  /\ sessions' = [sessions EXCEPT
                                 ![session_of(r)] = set_distances(sessions[session_of(r)], kept)]
              /\ runs' = [runs EXCEPT ![r].chunk_objs = Ids(kept), ![r].seen = db,
                                      ![r].pc = "retrieved"]
              /\ db' = db
       \/ /\ runs' = [runs EXCEPT ![r].pc = "fault"]
          /\ db' = session_close(db, sessions[session_of(r)])
          /\ sessions' = sessions
    /\ ServiceFrame

\* line 795
RunFocus(r) ==
    /\ runs[r].pc = "retrieved"
    /\ runs' = [runs EXCEPT
                   ![r].chunk_objs = Ids(focus_by_entity(objs(r), runs[r].request.question, MIN_KEEP)),
                   ![r].pc = "focused"]
    /\ UNCHANGED <<db, sessions>>
    /\ ServiceFrame

\* lines 800-814
RunTruncate(r) ==
    /\ runs[r].pc = "focused"
    /\ LET cut == Take(objs(r), CONTEXT_K)
       IN  runs' = [runs EXCEPT ![r].chunk_objs = Ids(cut),
                                ![r].candidates = [i \in 1..Len(cut) |-> candidate_of(cut[i])],
                                ![r].pc = "truncated"]
    /\ UNCHANGED <<db, sessions>>
    /\ ServiceFrame

\* lines 816-825: the relevance gate, then db.close()
RunGate(r) ==
    /\ runs[r].pc = "truncated"
    /\ \E outcome \in IF api_gate_calls(runs[r].candidates)
                      THEN ServiceJudgeOutcomes ELSE {NotCalled} :
          runs' = [runs EXCEPT
                      ![r].candidates = llm_filter_relevant_chunks(runs[r].candidates, outcome),
                      ![r].judged = [status |-> IF outcome.kind = "raise" THEN "raised"
                                                ELSE IF outcome.kind = "not called" THEN "skipped"
                                                ELSE "returned",
                                     outcome |-> outcome],
                      ![r].pc = "gated"]
    /\ db' = session_close(db, sessions[session_of(r)])
    /\ sessions' = sessions
    /\ ServiceFrame

RunResponse(run) ==
    LET path == answer_path(Len(run.candidates), LLM_ENABLED, run.request.mode,
                            run.request.question)
    IN  IF path = "refusal"
        THEN [kind |-> path, sources |-> <<>>, candidates |-> <<>>, stored_records |-> 0]
        ELSE [kind |-> path, sources |-> run.candidates, candidates |-> run.candidates,
              stored_records |-> Len(run.candidates)]

\* lines 828-903
RunAnswer(r) ==
    /\ runs[r].pc = "gated"
    /\ \/ runs' = [runs EXCEPT ![r].response = RunResponse(runs[r]), ![r].pc = "done"]
       \/ /\ RunResponse(runs[r]).kind = "answer"
          /\ runs' = [runs EXCEPT ![r].pc = "fault"]
    /\ UNCHANGED <<db, sessions>>
    /\ ServiceFrame

\* the client disconnects: the request is abandoned where it stands, its
\* session is closed by the finally clause of lines 824-825
RunCancel(r) ==
    /\ runs[r].pc \in {"start", "planned", "retrieved", "focused", "truncated", "gated"}
    /\ runs' = [runs EXCEPT ![r] = [StartRun(runs[r].request) EXCEPT !.pc = "cancelled"]]
    /\ db' = session_close(db, sessions[session_of(r)])
    /\ sessions' = sessions
    /\ ServiceFrame

\* longest store of the legacy service, in records
MaxLegacyRecords == 4

LEGACY_K == 3

RECURSIVE TotalRecords(_, _)
TotalRecords(data, wss) ==
    IF wss = {} THEN 0
    ELSE LET ws == CHOOSE x \in wss : TRUE
         IN  Len(data[ws]) + TotalRecords(data, wss \ {ws})

\* InMemoryStore.add: the chunks of a document, each with the workspace id
\* split_into_chunks gave it as source
add(data, ws, doc) ==
    LET ids == ById(DocumentChunks(doc))
    IN  [data EXCEPT ![ws] = @ \o [i \in 1..Len(ids) |-> [content |-> ids[i], source |-> ws]]]

\* InMemoryStore.get_workspace
get_workspace(data, ws) == data[ws]

\* InMemoryStore.top_k_similar; zero_norm: the query vector has norm 0
top_k_similar(data, ws, query, zero_norm, k) ==
    LET records == get_workspace(data, ws)
        scored == [i \in 1..Len(records) |->
                      [content |-> records[i].content, source |-> records[i].source,
                       score |-> 1 - cosine_distance(query, records[i].content)]]
    IN  IF records = <<>> THEN <<>>
        ELSE IF zero_norm THEN <<>>
        ELSE Take(StableSort(scored, [i \in 1..Len(scored) |-> 0 - scored[i].score]), k)

LegacyFrame ==
    UNCHANGED <<chatVars, LLM_ENABLED, QUERY_REWRITE_ENABLED, args, db, sessions, runs, ingests>>

\* ingest of api.py
LegacyAdd ==
    /\ \A r \in RunIds : runs[r].pc = "idle"
    /\ \E ws \in LegacyWorkspaces, doc \in Uploads :
          /\ TotalRecords(store, LegacyWorkspaces) + Cardinality(DocumentChunks(doc))
                <= MaxLegacyRecords
          /\ store' = add(store, ws, doc)
    /\ result' = result
    /\ LegacyFrame

\* chat of api.py, its lookup
LegacyLookup ==
    /\ \A r \in RunIds : runs[r].pc = "idle"
    /\ \E ws \in LegacyWorkspaces, query \in ServiceQuestions, zero_norm \in BOOLEAN :
          result' = [fn |-> "top_k_similar", workspace_id |-> ws,
                     out |-> top_k_similar(store, ws, query, zero_norm, LEGACY_K)]
    /\ store' = store
    /\ LegacyFrame

InitService ==
    /\ IdleRequest
    /\ LLM_ENABLED = TRUE
    /\ QUERY_REWRITE_ENABLED = FALSE
    /\ args = NoArgs
    /\ result = NoResult
    /\ db = EmptyDb
    /\ sessions = NoSessions
    /\ store = EmptyStore
    /\ ingests = NoIngests
    /\ \/ runs \in [RunIds -> {StartRun(req) : req \in ServiceRequests}]
       \/ runs = NoRuns

NextService ==
    \/ IngestFile
    \/ \E r \in RunIds : RunPlan(r)
    \/ \E r \in RunIds : RunRetrieve(r)
    \/ \E r \in RunIds : RunFocus(r)
    \/ \E r \in RunIds : RunTruncate(r)
    \/ \E r \in RunIds : RunGate(r)
    \/ \E r \in RunIds : RunAnswer(r)
    \/ \E r \in RunIds : RunCancel(r)
    \/ LegacyAdd
    \/ LegacyLookup

SpecService == InitService /\ [][NextService]_vars

(***************************************************************************)
(* The two noise classifiers on raw text (SpecNoise).  A raw text is a     *)
(* sequence of pieces: one whitespace character, or a block of content     *)
(* that neither starts nor ends with whitespace.                           *)
(***************************************************************************)
MaxTextLen == 3
MaxWsLen == 2

WsChars == {" ", "\n", "\t"}
Ws(ch) == [ch |-> ch, content |-> Prose(1, {})]
Block(content) == [ch |-> "", content |-> content]
isspace(piece) == piece.ch \in WsChars

\* a text measured as it is given
keep_whitespace(text) == text

RECURSIVE lstrip(_)
lstrip(text) ==
    IF text # <<>> /\ isspace(Head(text)) THEN lstrip(Tail(text)) ELSE text

RECURSIVE rstrip(_)
rstrip(text) ==
    IF text # <<>> /\ isspace(text[Len(text)])
    THEN rstrip(SubSeq(text, 1, Len(text) - 1)) ELSE text

\* str.strip()
strip(text) == rstrip(lstrip(text))

RECURSIVE text_len(_)
text_len(t) == IF t = <<>> THEN 0 ELSE Head(t).content.len + text_len(Tail(t))

\* what the classifiers read from t = text.strip()
features(t) ==
    [len |-> text_len(t),
     header |-> \E i \in 1..Len(t) : t[i].content.header,
     table |-> \E i \in 1..Len(t) : t[i].content.table,
     phrases |-> UNION {t[i].content.phrases : i \in 1..Len(t)}]

\* _is_noise_chunk(text) of chat_api.py
text_is_noise_chunk(text) ==
    IF text = <<>> THEN TRUE ELSE _is_noise_chunk(features(strip(text)))

\* _is_noise_chunk(text) of chat_helpers.py
helpers_text_is_noise_chunk(text) ==
    IF text = <<>> THEN TRUE ELSE helpers_is_noise_chunk(features(strip(text)))

NoisePieces ==
    {Ws(ch) : ch \in WsChars}
        \cup {Block(c) : c \in {Prose(1, {}), Prose(NOISE_MIN_LEN - 1, {}),
                                Prose(HELPERS_NOISE_MIN_LEN - 1, {}), Table(200)}}

NoiseTexts == SeqsUpTo(NoisePieces, MaxTextLen)
Whitespace == SeqsUpTo({Ws(ch) : ch \in WsChars}, MaxWsLen)

InitNoise ==
    /\ IdleChat
    /\ LLM_ENABLED = TRUE
    /\ QUERY_REWRITE_ENABLED = TRUE
    /\ args \in {[fn |-> "_is_noise_chunk", text |-> t, w |-> w] :
                    t \in NoiseTexts, w \in Whitespace}
    /\ result = NoResult

ApplyApiNoise ==
    /\ args.fn = "_is_noise_chunk"
    /\ result = NoResult
    /\ result' = [fn |-> "chat_api_noise",
                  plain |-> text_is_noise_chunk(args.text),
                  padded |-> text_is_noise_chunk(args.text \o args.w)]
    /\ UNCHANGED <<chatVars, LLM_ENABLED, QUERY_REWRITE_ENABLED, args, svcVars>>

ApplyHelpersNoise ==
    /\ args.fn = "_is_noise_chunk"
    /\ result = NoResult
    /\ result' = [fn |-> "chat_helpers_noise",
                  plain |-> helpers_text_is_noise_chunk(args.text),
                  padded |-> helpers_text_is_noise_chunk(args.text \o args.w)]
    /\ UNCHANGED <<chatVars, LLM_ENABLED, QUERY_REWRITE_ENABLED, args, svcVars>>

NextNoise == ApplyApiNoise \/ ApplyHelpersNoise

SpecNoise == InitNoise /\ [][NextNoise]_vars

(***************************************************************************)
(* Two uploads in parallel, statement by statement (SpecIngest).  Each     *)
(* upload runs create_document_with_chunks on a session of its own; db is  *)
(* the committed store, the rows a session has flushed and not committed   *)
(* are in its tx and no other session reads them.  Upload i stores the     *)
(* document i.                                                             *)
(***************************************************************************)
\* the number of chunk dicts split_into_chunks makes of a document
chunk_count(doc) == Cardinality(DocumentChunks(doc))

\* for i, (chunk, embedding) in enumerate(zip(chunks, embeddings)): the Chunk
\* rows built for a document, given m embeddings
built_chunks(doc, m) ==
    {id \in DocumentChunks(doc) : Chunks[id].index < Min(chunk_count(doc), m)}

\* db.commit(): the rows of the transaction become rows of the store
commit(d, ws, doc, tx) ==
    [d EXCEPT !.documents[doc] = IF tx.document THEN ws ELSE @,
              !.chunks = @ \cup tx.chunks]

\* a session that commits whatever it flushes
flush_autocommit(d, ws, doc, tx) == commit(d, ws, doc, tx)

\* db.flush(): the rows are sent inside the open transaction
flush(d, ws, doc, tx) == d

StartIngest(ws, doc, m) ==
    [pc |-> "start", workspace_id |-> ws, doc |-> doc, embeddings |-> m,
     tx |-> NoTx, error |-> "none", failed_at |-> "none"]

IngestFrame ==
    UNCHANGED <<chatVars, LLM_ENABLED, QUERY_REWRITE_ENABLED, args, result,
                sessions, runs, store>>

\* get_or_create_workspace, line 339: db.get(Workspace, workspace_id)
GetWorkspace(i) ==
    /\ ingests[i].pc = "start"
    /\ ingests' = [ingests EXCEPT ![i].pc =
                      IF ingests[i].workspace_id \in db.workspaces THEN "workspace" ELSE "adding"]
    /\ db' = db
    /\ IngestFrame

\* get_or_create_workspace, lines 343-346: the INSERT of the commit meets the
\* primary key of workspaces
CommitWorkspace(i) ==
    /\ ingests[i].pc = "adding"
    /\ IF ingests[i].workspace_id \in db.workspaces
       THEN /\ ingests' = [ingests EXCEPT ![i].pc = "failed",
                                          ![i].error = "IntegrityError",
                                          ![i].failed_at = "adding"]
            /\ db' = db
       ELSE /\ ingests' = [ingests EXCEPT ![i].pc = "workspace"]
            /\ db' = get_or_create_workspace(db, ingests[i].workspace_id)
    /\ IngestFrame

\* create_document_with_chunks, lines 364-366
FlushDocument(i) ==
    /\ ingests[i].pc = "workspace"
    /\ LET tx == [ingests[i].tx EXCEPT !.document = TRUE]
       IN  /\ ingests' = [ingests EXCEPT ![i].pc = "document", ![i].tx = tx]
           /\ db' = flush(db, ingests[i].workspace_id, ingests[i].doc, tx)
    /\ IngestFrame

\* create_document_with_chunks, lines 369-396
FlushChunks(i) ==
    /\ ingests[i].pc = "document"
    /\ LET tx == [ingests[i].tx EXCEPT
                     !.chunks = built_chunks(ingests[i].doc, ingests[i].embeddings)]
       IN  /\ ingests' = [ingests EXCEPT ![i].pc = "chunks", ![i].tx = tx]
           /\ db' = flush(db, ingests[i].workspace_id, ingests[i].doc, tx)
    /\ IngestFrame

\* create_document_with_chunks, line 411
CommitDocument(i) ==
    /\ ingests[i].pc = "chunks"
    /\ db' = commit(db, ingests[i].workspace_id, ingests[i].doc, ingests[i].tx)
    /\ ingests' = [ingests EXCEPT ![i].pc = "committed", ![i].tx = NoTx]
    /\ IngestFrame

\* create_document_with_chunks, lines 412-413, and ingest_file, lines 43-52
ReturnIngest(i) ==
    /\ ingests[i].pc = "committed"
    /\ ingests' = [ingests EXCEPT ![i].pc = "done"]
    /\ db' = db
    /\ IngestFrame

\* a statement of create_document_with_chunks raises after the workspace row
\* exists (a chunk dict without "content", a flush or commit the database
\* refuses, a refresh on a lost connection); ingest_file closes the session
\* at line 44 and the open transaction is rolled back
IngestFault(i) ==
    /\ ingests[i].pc \in {"workspace", "document", "chunks", "committed"}
    /\ ingests' = [ingests EXCEPT ![i].pc = "failed", ![i].error = "fault",
                                  ![i].failed_at = ingests[i].pc, ![i].tx = NoTx]
    /\ db' = db
    /\ IngestFrame

InitIngest ==
    /\ IdleRequest
    /\ LLM_ENABLED = TRUE
    /\ QUERY_REWRITE_ENABLED = FALSE
    /\ args = NoArgs
    /\ result = NoResult
    /\ db = EmptyDb
    /\ sessions = NoSessions
    /\ runs = NoRuns
    /\ store = EmptyStore
    /\ ingests \in {[i \in IngestIds |-> StartIngest(ws[i], i, chunk_count(i) - less[i])] :
                       ws \in [IngestIds -> IngestWorkspaces], less \in [IngestIds -> 0..1]}

NextIngest ==
    \/ \E i \in IngestIds : GetWorkspace(i)
    \/ \E i \in IngestIds : CommitWorkspace(i)
    \/ \E i \in IngestIds : FlushDocument(i)
    \/ \E i \in IngestIds : FlushChunks(i)
    \/ \E i \in IngestIds : CommitDocument(i)
    \/ \E i \in IngestIds : ReturnIngest(i)
    \/ \E i \in IngestIds : IngestFault(i)

SpecIngest == InitIngest /\ [][NextIngest]_vars

(***************************************************************************)
(* Properties.                                                             *)
(***************************************************************************)
Called(cap) == cap \in Range(calls)
Gated == result.fn \in {"chat_api", "chat_helpers"}
Max(a, b) == IF a > b THEN a ELSE b
Retrieved == result.fn = "_retrieve_candidates" /\ result.status = "returned"

\* C1: for every chat request and every reply of the relevance judgment, the
\* evidence list handed to the answer generator and returned as sources has
\* at most CONTEXT_K = 8 entries.
C1_EvidenceAtMostK ==
    /\ Called("answer") => Len(candidates) <= CONTEXT_K
    /\ Len(response.sources) <= CONTEXT_K

\* C2: no chunk id appears twice in the list _retrieve_candidates returns, on
\* the normal path and on the all-noise fallback path alike.
C2_NoChunkIdTwice ==
    Retrieved => NoDuplicates(Ids(result.out))

\* C3: a run that ends with no evidence never invokes the answer generator and
\* answers with empty sources and empty candidates; the answer generator is
\* invoked only with a non-empty evidence list.
C3_NoEvidenceNeverAnswers ==
    /\ Called("answer") => candidates # <<>>
    /\ (pc = "done" /\ candidates = <<>>) =>
          /\ ~Called("answer")
          /\ response.kind = "stub"
          /\ response.sources = <<>>
          /\ response.candidates = <<>>
          /\ response.stored_records = 0

\* C3, its case: the gate emptied a non-empty candidate list and the run ended
C3_Witness ==
    /\ pc = "done"
    /\ candidates = <<>>
    /\ chunk_objs # <<>>
    /\ judged.status = "returned"
    /\ response.kind = "stub"

\* C4: a chat request never ends in an unhandled fault, whatever capability fails.
C4_NeverFaults == pc # "fault"

\* C5: when the relevance-judgment capability raises, the gate returns exactly
\* its input candidate list.
C5_RaiseFailsOpen ==
    (Gated /\ args.outcome.kind = "raise") =>
        (result.status = "returned" /\ result.out = args.cands)

\* a reply that holds no list of indices: free text, malformed JSON, a non-list
Unparsable(o) ==
    \/ o.kind \in {"nonlist", "malformed"}
    \/ /\ o.kind = "csv"
       /\ \E i \in 1..Len(o.items) : o.items[i] = -1
       /\ \A i \in 1..Len(o.items) : o.items[i] < 0

\* C6: when the reply of the relevance judgment cannot be parsed into a list of
\* indices, the gate passes all of its input candidates through unchanged.
C6_UnparsableFailsOpen ==
    (Gated /\ Unparsable(args.outcome)) =>
        (result.status = "returned" /\ result.out = args.cands)

\* C7: for every non-empty input of N candidates and every reply, the gate
\* output contains the first max(3, N/3) candidates of the input (all of them
\* when N < 3).
C7_BaseSetRetained ==
    (Gated /\ args.cands # <<>> /\ result.status = "returned") =>
        \A i \in 1..Min(Len(args.cands), Max(3, Len(args.cands) \div 3)) :
            args.cands[i] \in Range(result.out)

Planned == pc \notin {"start", "idle"}
OnlyTheQuestion == search_queries = <<request.question>> /\ ~Called("rewrite")

\* C8 as stated: in reference mode and in synthesis mode the planned queries
\* are exactly [question] and the rewrite capability is not invoked, whatever
\* the flags.
C8_StrictModesNeverRewrite ==
    (Planned /\ request.mode \in {"reference", "synthesis"}) => OnlyTheQuestion

\* C8 as amended: in synthesis mode, whatever the flags, and in reference mode
\* when rewriting is switched off, the planned queries are exactly [question]
\* and the rewrite capability is not invoked; in reference mode with rewriting
\* switched on it is invoked and the question stays first.
C8_SynthesisNeverRewrites ==
    Planned =>
        /\ request.mode = "synthesis" => OnlyTheQuestion
        /\ (request.mode = "reference" /\ ~(LLM_ENABLED /\ QUERY_REWRITE_ENABLED))
              => OnlyTheQuestion
        /\ (request.mode = "reference" /\ LLM_ENABLED /\ QUERY_REWRITE_ENABLED)
              => (Called("rewrite") /\ search_queries[1] = request.question)

\* C8, its case: a synthesis request planned with both flags on
C8_Witness ==
    /\ pc = "planned"
    /\ request.mode = "synthesis"
    /\ LLM_ENABLED
    /\ QUERY_REWRITE_ENABLED
    /\ search_queries = <<request.question>>

\* the rewrites a reply holds: its lines without bullets, the empty ones dropped
ReturnedRewrites(reply) ==
    SelectSeq([i \in 1..Len(reply.lines) |-> strip_bullet(reply.lines[i])],
              LAMBDA q : q.w # <<>>)

RewriteSucceeded == result.fn = "_rewrite_queries" /\ args.reply.kind = "text"

\* C9 as stated: when the rewrite capability succeeds, the planned list starts
\* with the question, has no two equal elements, holds rewrites in returned
\* order after it, and holds every distinct returned rewrite.
C9_EveryRewritePresent ==
    RewriteSucceeded =>
        /\ result.out[1] = args.question
        /\ NoDuplicates(result.out)
        /\ IsSubSeq(Tail(result.out), ReturnedRewrites(args.reply))
        /\ \A r \in Range(ReturnedRewrites(args.reply)) : r \in Range(result.out)

\* C9 as amended: the list starts with the question, holds at most
\* QUERY_REWRITE_N + 1 entries, no two equal even ignoring letter case, the
\* entries after the first are returned rewrites in returned order, and every
\* returned rewrite is in the list up to letter case unless the list is full.
C9_RewritesUpToBudget ==
    RewriteSucceeded =>
        /\ result.out[1] = args.question
        /\ Len(result.out) <= QUERY_REWRITE_N + 1
        /\ NoDuplicates([i \in 1..Len(result.out) |-> lower(result.out[i])])
        /\ IsSubSeq(Tail(result.out), ReturnedRewrites(args.reply))
        /\ \/ Len(result.out) = QUERY_REWRITE_N + 1
           \/ \A r \in Range(ReturnedRewrites(args.reply)) :
                 \E e \in Range(result.out) : lower(e) = lower(r)

\* C9, its case: more distinct rewrites than the budget, and a full list
C9_Witness ==
    /\ RewriteSucceeded
    /\ Cardinality(Range(ReturnedRewrites(args.reply))) > QUERY_REWRITE_N
    /\ Len(result.out) = QUERY_REWRITE_N + 1

\* C10: retrieval on [q1, q2] and on [q2, q1] yields the same sequence of
\* chunk ids with the same fused scores and distances.
C10_DispatchOrderIndependent ==
    (Retrieved /\ Len(args.lookups) = 2) =>
        result.out = helpers_retrieve_candidates(<<args.lookups[2], args.lookups[1]>>)

\* the chunk is returned by one lookup only, the semantic one, at this rank
OnlySemanticRank(lookup, cid, rank) ==
    rank_in(lookup.vec, cid) = rank /\ rank_in(lookup.fts, cid) = 0

\* C11: when a chunk is ranked #1 for the first planned query and #3 for the
\* second, its fused score in the retrieval output is 1/(60+1) + 1/(60+3),
\* the sum of its contributions across both queries.
C11_ScoreSummedAcrossQueries ==
    (Retrieved /\ Len(args.lookups) = 2) =>
        \A cid \in ChunkIds :
            (/\ OnlySemanticRank(args.lookups[1], cid, 1)
             /\ OnlySemanticRank(args.lookups[2], cid, 3)) =>
                \E i \in 1..Len(result.out) :
                    /\ result.out[i].id = cid
                    /\ result.out[i]._rrf = rrf(1) + rrf(3)

\* some lookup of some planned query returned a row
SomeRow(lookups) == \E i \in 1..Len(lookups) : lookups[i].vec # <<>> \/ lookups[i].fts # <<>>

\* every row of every lookup is a chunk the noise classifier of chat_helpers.py drops
AllNoise(lookups) ==
    \A i \in 1..Len(lookups) :
        \A row \in Range(lookups[i].vec) \cup Range(lookups[i].fts) :
            helpers_is_noise_chunk(Chunks[row.id].content)

\* C12: _retrieve_candidates of chat_helpers.py returns a non-empty list when
\* some lookup of some planned query returned a row, also when every retrieved
\* chunk is noise, and the empty list only when every lookup returned no rows.
C12_AntiStarvation ==
    Retrieved =>
        (result.out = <<>> <=> ~SomeRow(args.lookups))

\* C12, its case: every retrieved chunk is noise and the result is not empty
C12_Witness ==
    /\ Retrieved
    /\ SomeRow(args.lookups)
    /\ AllNoise(args.lookups)
    /\ result.out # <<>>

\* the chunks of a list whose content contains a term extracted from the question
WithTerm(chunks, question) ==
    SelectSeq(chunks, LAMBDA ch : \E t \in entity_terms(question) : t \in Chunks[ch.id].content.phrases)

\* C13: for every question, every min_keep and every list of N >= min_keep
\* chunks, focus_by_entity returns the list unchanged or the order-preserving
\* sublist of the chunks that contain an extracted term, the latter only when
\* it has min_keep chunks or more; the size of the output is never strictly
\* between 0 and min_keep; without an extracted term the list is unchanged.
C13_FocusFloor ==
    (result.fn = "focus_by_entity" /\ Len(args.chunks) >= args.min_keep) =>
        /\ \/ result.out = args.chunks
           \/ /\ result.out = WithTerm(args.chunks, args.question)
              /\ Len(result.out) >= args.min_keep
        /\ ~(0 < Len(result.out) /\ Len(result.out) < args.min_keep)
        /\ entity_terms(args.question) = {} => result.out = args.chunks

\* C13, its case: the filter narrowed the list and kept min_keep chunks or more
C13_Witness ==
    /\ result.fn = "focus_by_entity"
    /\ args.min_keep >= 2
    /\ Len(result.out) >= args.min_keep
    /\ Len(result.out) < Len(args.chunks)

\* the contents of the candidates chat holds
CandidateContents == [i \in 1..Len(candidates) |-> ContentWords(Chunks[candidates[i].chunk_id].content)]

\* C14: the coverage gate is applied in every run: the answer generator is
\* never invoked with an evidence set whose best overlap with the question is
\* below 0.20.
C14_CoverageGateApplied ==
    Called("answer") => _passes_coverage_gate(QuestionWords(request.question), CandidateContents)

\* the terms of a text: its words of three letters or more that are not stop words
Terms(text) == {t \in text : WordLen[t] >= 3 /\ t \notin _STOPWORDS}

\* C15: for a question with at least one term, the coverage gate passes exactly
\* when some candidate among the first 10 shares with the question at least a
\* fifth of the question's terms (5 * intersection >= number of question
\* terms); overlap 0 and the empty candidate list never pass.
C15_PassesAtOneFifth ==
    (result.fn = "_passes_coverage_gate" /\ Terms(args.question) # {}) =>
        /\ result.out <=>
              \E i \in 1..Min(Len(args.cands), 10) :
                  5 * Cardinality(Terms(args.question) \cap Terms(args.cands[i]))
                      >= Cardinality(Terms(args.question))
        /\ args.cands = <<>> => ~result.out
        /\ (\A i \in 1..Len(args.cands) : Terms(args.question) \cap Terms(args.cands[i]) = {})
              => ~result.out

\* C15, its case: a question of five terms passes on one shared term
C15_Witness ==
    /\ result.fn = "_passes_coverage_gate"
    /\ Cardinality(Terms(args.question)) = 5
    /\ \A i \in 1..Len(args.cands) : Cardinality(Terms(args.question) \cap Terms(args.cands[i])) <= 1
    /\ result.out

\* the retrieval of this run is over
RetrievalReturned == pc \in {"retrieved", "focused", "truncated", "gated", "done"}

\* C16: when the workspace holds no chunk, retrieval returns no candidate, the
\* run makes no call to the relevance judgment or to the answer generator, at
\* any stage, and it ends in NoEvidence: the stub answer with empty sources.
C16_EmptyWorkspaceNoCalls ==
    WorkspaceChunks(request.workspace_id) = {} =>
        /\ ~Called("judge")
        /\ ~Called("answer")
        /\ RetrievalReturned => (chunk_objs = <<>> /\ candidates = <<>>)
        /\ pc = "done" =>
              (response.kind = "stub" /\ response.sources = <<>> /\ response.stored_records = 0)

\* C16, its case: a request for the empty workspace ran to its end
C16_Witness ==
    /\ request.workspace_id = "w0"
    /\ pc = "done"
    /\ Called("embed")
    /\ judged.status = "skipped"

\* the chunk is stored in a document of the workspace
InWorkspace(id, ws) == id \in db.chunks /\ db.documents[Chunks[id].document_id] = ws

\* C17: after any sequence of uploads into any workspaces, every chunk a
\* retrieval for workspace W returns, and every candidate and source of a chat
\* response for W, belongs to a document stored under W; the lookup of the
\* legacy store returns only records that were added under W.
C17_WorkspaceIsolation ==
    /\ \A r \in RunIds :
          LET W == runs[r].request.workspace_id
          IN  /\ \A id \in Range(runs[r].chunk_objs) : InWorkspace(id, W)
              /\ \A c \in Range(runs[r].candidates) : InWorkspace(c.chunk_id, W)
              /\ \A c \in Range(runs[r].response.sources) : InWorkspace(c.chunk_id, W)
    /\ result.fn = "top_k_similar" =>
          \A rec \in Range(result.out) :
              /\ rec.source = result.workspace_id
              /\ \E j \in 1..Len(store[result.workspace_id]) :
                    store[result.workspace_id][j].content = rec.content

\* C17, its case: a request answered from its workspace while another
\* workspace held a document with a passage
C17_Witness ==
    \E r \in RunIds :
        /\ runs[r].pc = "done"
        /\ runs[r].response.sources # <<>>
        /\ \E id \in runs[r].seen.chunks :
              /\ runs[r].seen.documents[Chunks[id].document_id] # runs[r].request.workspace_id
              /\ ~_is_noise_chunk(Chunks[id].content)

\* C18: no step of a chat request, be it completed, failed or cancelled,
\* changes the database, and no session of a request ever holds a change to a
\* stored field: the annotations are transient.
C18_NoWrites ==
    /\ [][runs' # runs => db' = db]_vars
    /\ [](\A r \in RunIds : sessions[r].dirty = {})

\* C18, its case: over a database that holds chunks, one request was cancelled
\* after it annotated chunks and the other one ended
C18_Witness ==
    /\ db.chunks # {}
    /\ runs[1].pc = "cancelled"
    /\ sessions[1]._distance # NoSession._distance
    /\ runs[2].pc \in {"done", "fault"}

\* the same request executed alone on the database it read, with the
\* capability responses it got
SoloChunks(run) ==
    Take(focus_by_entity(_retrieve_candidates(run.seen, run.request.workspace_id,
                                              ServiceDists(run.search_queries), k_per_query),
                         run.request.question, MIN_KEEP),
         CONTEXT_K)
SoloCandidates(run) == [i \in 1..Len(SoloChunks(run)) |-> candidate_of(SoloChunks(run)[i])]
SoloGated(run) == llm_filter_relevant_chunks(SoloCandidates(run), run.judged.outcome)
SoloResponse(run) == RunResponse([run EXCEPT !.candidates = SoloGated(run)])

\* C19: whatever the interleaving of the steps of two chat requests, each
\* request's decision, evidence list and scores equal those of the same
\* request executed alone.
C19_RunsIndependent ==
    \A r \in RunIds :
        /\ runs[r].pc = "truncated" => runs[r].candidates = SoloCandidates(runs[r])
        /\ runs[r].pc \in {"gated", "done"} => runs[r].candidates = SoloGated(runs[r])
        /\ runs[r].pc = "done" => runs[r].response = SoloResponse(runs[r])

\* C19, its case: two requests for one workspace ended with sources, and
\* their sessions hold different distances for a chunk both retrieved
C19_Witness ==
    /\ runs[1].pc = "done"
    /\ runs[2].pc = "done"
    /\ runs[1].request.workspace_id = runs[2].request.workspace_id
    /\ runs[1].response.sources # <<>>
    /\ runs[2].response.sources # <<>>
    /\ \E id \in ChunkIds :
          /\ sessions[1]._distance[id] # NO_DISTANCE
          /\ sessions[2]._distance[id] # NO_DISTANCE
          /\ sessions[1]._distance[id] # sessions[2]._distance[id]

\* C20: a run passes through Planned, Retrieved, Focused, Gated, Assembled in
\* this order: the relevance gate runs on the focused list, and the cut to the
\* context budget K runs on the output of the gate, never before it.
C20_CutAfterGate ==
    [][/\ pc' = "gated" => pc = "focused"
       /\ pc' = "truncated" => pc = "gated"]_vars

\* C21: trailing whitespace never changes the verdict of either noise
\* classifier: for every text t and every whitespace string w the verdict on
\* t followed by w is the verdict on t, the empty t included.
C21_TrailingWhitespaceIgnored ==
    result.fn \in {"chat_api_noise", "chat_helpers_noise"} => result.padded = result.plain

\* a text of 120 characters or more that is not noise, followed by whitespace
C21_Witness ==
    /\ result.fn = "chat_api_noise"
    /\ args.w # <<>>
    /\ args.text # <<>> /\ ~isspace(args.text[Len(args.text)])
    /\ ~result.plain /\ ~result.padded

\* the contribution of one list to a chunk's fused score: 1 / (60 + r) when the
\* chunk stands at rank r of the list, nothing when it is not in the list
Contribution(rows, cid) ==
    IF rank_in(rows, cid) > 0 THEN RrfScale(MaxRows) \div (60 + rank_in(rows, cid)) ELSE 0

OneQuery == Retrieved /\ Len(args.lookups) = 1

\* C22: within one query the fused score of a chunk is the sum, over the
\* semantic and the lexical list, of 1 / (60 + r) for each list that holds the
\* chunk at rank r: both contributions for a chunk of both lists, exactly one
\* for a chunk of one list.
C22_FusedScoreIsSumOfRanks ==
    OneQuery =>
        \A i \in 1..Len(result.out) :
            result.out[i]._rrf = Contribution(args.lookups[1].vec, result.out[i].id)
                                 + Contribution(args.lookups[1].fts, result.out[i].id)

\* one query returns a chunk found by both lists at different ranks and a
\* chunk found by the semantic list alone
C22_Witness ==
    /\ OneQuery
    /\ \E i, j \in 1..Len(result.out) :
          LET l == args.lookups[1]
              a == result.out[i].id
              b == result.out[j].id
          IN  /\ rank_in(l.vec, a) > 0 /\ rank_in(l.fts, a) > 0
              /\ rank_in(l.vec, a) # rank_in(l.fts, a)
              /\ rank_in(l.vec, b) > 0 /\ rank_in(l.fts, b) = 0

RewriteFailed == args.reply.kind \in {"raise", "build raise"}

\* C23: when the rewrite capability raises, while the chain is built or while
\* it answers, or when rewriting is disabled, _rewrite_queries returns exactly
\* [question]; nothing is raised to the caller.
C23_RewriteFailureFallsBack ==
    (/\ result.fn = "_rewrite_queries"
     /\ RewriteFailed \/ ~LLM_ENABLED \/ ~QUERY_REWRITE_ENABLED)
        => result.out = <<args.question>>

\* rewriting is enabled, the capability raises and the planner has returned
C23_Witness ==
    /\ result.fn = "_rewrite_queries"
    /\ LLM_ENABLED /\ QUERY_REWRITE_ENABLED
    /\ args.reply = Raise
    /\ result.out = <<args.question>>

\* C24: when create_embeddings raises for a planned query only the semantic
\* branch of that query is lost: the lexical lookup of the query and the
\* remaining queries are still processed and retrieval returns normally.
C24_EmbeddingFailureTolerated ==
    (result.fn = "_retrieve_candidates" /\ first_raise(args.embeddings) > 0)
        => result.status = "returned"

\* C25: the chunk id is the only deduplication key: candidates that lack an id
\* are never dropped as duplicates of each other, and retrieval completes
\* normally when a candidate has no id.
C25_RowsWithoutIdKept ==
    (/\ result.fn = "_retrieve_candidates"
     /\ first_raise(args.embeddings) = 0
     /\ \E i \in 1..Len(args.lookups) : int_id_raises(args.lookups[i].vec))
        => /\ result.status = "returned"
           /\ \A i \in 1..Len(args.lookups) :
                 Cardinality({j \in 1..Len(result.out) : result.out[j].id = NoId})
                     >= Cardinality({j \in 1..Len(args.lookups[i].vec) :
                                        args.lookups[i].vec[j].id = NoId})

\* C26: for every judgment reply, repeated indices and indices in any order
\* included, the output of the relevance gate is a sub-sequence of its input
\* in which no candidate occurs twice.
C26_GateOutputOrderedNoRepeats ==
    (Gated /\ result.status = "returned") =>
        /\ IsSubSeq(result.out, args.cands)
        /\ NoDuplicates([i \in 1..Len(result.out) |-> result.out[i].chunk_id])

NoiseInOutput ==
    \E i \in 1..Len(result.out) : helpers_is_noise_chunk(Chunks[result.out[i].id].content)

Rows(lookups) ==
    UNION {Range(lookups[i].vec) \cup Range(lookups[i].fts) : i \in 1..Len(lookups)}

\* C27: the output of _retrieve_candidates of chat_helpers.py holds a noise
\* chunk only when every chunk returned by every query is noise (the fallback
\* path); when some retrieved chunk is not noise the output holds no noise
\* chunk, and on the fallback path the output holds at most 50 chunks.
C27_NoiseOnlyOnFallback ==
    Retrieved =>
        /\ NoiseInOutput => AllNoise(args.lookups)
        /\ AllNoise(args.lookups) => Len(result.out) <= 50

\* a lookup returns more than 50 chunks, all noise, and 50 of them come back
C27_Witness ==
    /\ Retrieved
    /\ AllNoise(args.lookups)
    /\ Cardinality(Rows(args.lookups)) > 50
    /\ Len(result.out) = 50

\* the question holds " and ", "," or ";"
CompoundQuestion == is_multi_question(request.question)

\* C28: in reference mode a question that holds " and ", "," or ";" never
\* reaches the answer generator, whatever retrieval and the relevance gate
\* return; when evidence was found and the LLM is enabled the response is the
\* one-atomic-question refusal with empty sources, empty candidates and
\* stored_records 0.
C28_ReferenceRefusesCompound ==
    (request.mode = "reference" /\ CompoundQuestion) =>
        /\ ~Called("answer")
        /\ (pc = "done" /\ candidates # <<>> /\ LLM_ENABLED) =>
              /\ response.kind = "refusal"
              /\ response.sources = <<>>
              /\ response.candidates = <<>>
              /\ response.stored_records = 0

\* a reference-mode request with a compound question found evidence, the gate
\* was asked, and the request ended in the refusal
C28_Witness ==
    /\ request.mode = "reference" /\ CompoundQuestion
    /\ pc = "done" /\ candidates # <<>> /\ LLM_ENABLED
    /\ Called("judge")
    /\ response.kind = "refusal"

SameWorkspace == ingests[1].workspace_id = ingests[2].workspace_id
IngestsEnded == \A i \in IngestIds : ingests[i].pc \in {"done", "failed"}
NoFault == \A i \in IngestIds : ingests[i].error # "fault"
StoredChunks(doc) == db.chunks \cap DocumentChunks(doc)

\* C29: two concurrent create_document_with_chunks calls that name the same
\* workspace id, not yet in the store, both complete, in every interleaving:
\* afterwards the workspace row exists once and both documents are stored
\* under it with all their chunks.
C29_ConcurrentUploadsBothComplete ==
    (SameWorkspace /\ IngestsEnded /\ NoFault) =>
        /\ \A i \in IngestIds : ingests[i].pc = "done"
        /\ ingests[1].workspace_id \in db.workspaces
        /\ \A i \in IngestIds :
              /\ db.documents[ingests[i].doc] = ingests[i].workspace_id
              /\ StoredChunks(ingests[i].doc)
                    = built_chunks(ingests[i].doc, ingests[i].embeddings)

\* in the committed store a document row is there only with its complete set
\* of chunks, of indices 0..n-1 for n = min(chunks, embeddings), and no chunk
\* row is there without its document row
VisibleTogether ==
    \A i \in IngestIds :
        LET doc == ingests[i].doc
            n == Min(chunk_count(doc), ingests[i].embeddings)
        IN  IF db.documents[doc] = "none" THEN StoredChunks(doc) = {}
            ELSE /\ StoredChunks(doc) = built_chunks(doc, ingests[i].embeddings)
                 /\ {Chunks[id].index : id \in StoredChunks(doc)} = 0..(n - 1)

NothingLeft(i) ==
    db.documents[ingests[i].doc] = "none" /\ StoredChunks(ingests[i].doc) = {}

\* C30 as stated: a document row is visible only together with its complete
\* set of chunks, and an upload that fails at any step after the workspace row
\* exists leaves no document row and no chunk row behind.
C30_IngestionAtomic ==
    /\ VisibleTogether
    /\ \A i \in IngestIds : ingests[i].error = "fault" => NothingLeft(i)

\* C30, amended: a document row is visible only together with its complete
\* set of chunks, and an upload that fails after the workspace row exists and
\* before the commit of line 411 leaves no document row and no chunk row
\* behind; one that fails after the commit leaves the document and all of its
\* chunks.
C30_AtomicUntilCommit ==
    /\ VisibleTogether
    /\ \A i \in IngestIds :
          ingests[i].error = "fault" =>
              IF ingests[i].failed_at = "committed"
              THEN db.documents[ingests[i].doc] = ingests[i].workspace_id
              ELSE NothingLeft(i)

\* an upload failed with its chunks flushed and left nothing, while the other
\* upload committed its document
C30_Witness ==
    \E i, j \in IngestIds :
        /\ ingests[i].error = "fault" /\ ingests[i].failed_at = "chunks"
        /\ built_chunks(ingests[i].doc, ingests[i].embeddings) # {}
        /\ NothingLeft(i)
        /\ ingests[j].pc = "done"

====
